---- MODULE Spec2Model ----
(***************************************************************************)
(* Model of truckersmp-cli:                                                *)
(*   - steamruntime_helper.main   (the Steam Runtime helper / supervisor)  *)
(*   - truckersmp_cli.main, steamcmd.update_game, start_with_proton,       *)
(*     start_with_wine            (the command line program)               *)
(* The two programs are separate processes; each has its own               *)
(* specification (HelperSpec, Spec) over the variables it owns.            *)
(***************************************************************************)
EXTENDS Integers, Sequences, FiniteSets, TLC

(***************************************************************************)
(* Bounds of the model.                                                    *)
(***************************************************************************)
\* most "--executable" options given to the helper
MaxExe == 2
\* most consecutive runs of truckersmp-cli over the same file system
MaxRuns == 2

(***************************************************************************)
(* Python values.  None is a sentinel; a dict is a function whose DOMAIN   *)
(* is its key set.                                                         *)
(***************************************************************************)
None == "None"

\* d[k] = v
DictSet(d, k, v) == [x \in (DOMAIN d) \cup {k} |-> IF x = k THEN v ELSE d[x]]

\* del d[k]
DictDel(d, k) == [x \in (DOMAIN d) \ {k} |-> d[x]]

\* s[0:n]
Slice0(s, n) == SubSeq(s, 1, IF Len(s) < n THEN Len(s) ELSE n)

(***************************************************************************)
(*                 steamruntime_helper.py : main()                         *)
(***************************************************************************)
VARIABLES
    sr_pc,                  \* position in main()
    sr_args,                \* argparse result: verbose, executable, xdg_runtime_dir, game_arguments
    sr_environ,             \* os.environ of the helper
    sr_env,                 \* env
    sr_env_3rdparty,        \* env_3rdparty
    third_party_processes,  \* list of Popen handles (indices into procs)
    procs,                  \* the auxiliary OS processes: cmd, env, state, killed
    sr_i,                   \* loop index of the two for loops
    primary,                \* the check_output child: cmd, env, state, rc
    sr_stdout,              \* what main() printed to sys.stdout
    sr_stderr,              \* what main() printed to sys.stderr
    sr_exit                 \* exit status of the helper (None while running)

sr_vars == <<sr_pc, sr_args, sr_environ, sr_env, sr_env_3rdparty,
             third_party_processes, procs, sr_i, primary,
             sr_stdout, sr_stderr, sr_exit>>

VARIABLES
    pc,             \* position in main() and the functions it calls
    args,           \* the parsed arguments (global args)
    environ,        \* os.environ
    fs,             \* the file system: steamcmd binaries and directories
    run,            \* number of the current run over this file system
    trace,          \* this run's external operations and log records, in order
    exit_status,    \* exit status of the run (-1 while running)
    exit_msg,       \* message of sys.exit(msg) or of the traceback
    env,            \* update_game: env
    env_steam,      \* update_game: env_steam
    wine,           \* update_game / start_with_wine: wine
    steamcmd,       \* update_game: steamcmd
    steamcmd_cmd,   \* update_game: steamcmd_cmd
    steamcmd_url,   \* update_game: steamcmd_url
    gamedir,        \* update_game: gamedir
    branch,         \* update_game: branch
    beta_branch_name, \* what get_beta_branch_name(game) answers in this run
    steamdir,       \* start_with_proton: steamdir
    launch_env,     \* start_with_proton / start_with_wine: env
    argv            \* start_with_proton / start_with_wine: argv

cli_vars == <<pc, args, environ, fs, run, trace, exit_status, exit_msg,
              env, env_steam, wine, steamcmd, steamcmd_cmd, steamcmd_url,
              gamedir, branch, beta_branch_name, steamdir, launch_env, argv>>

vars == <<sr_vars, cli_vars>>

\* command lines the helper is started with (nargs="+": at least one token)
SrGameArguments ==
    { <<"python3", "proton", "run", "truckersmp-cli.exe", "gamedir", "moddir">>,
      <<"wine", "game.exe">> }

\* "--executable" values; <<>> stands for None (option never given):
\* action="append" yields None or a non-empty list
SrExecutables ==
    { s \in UNION { [1..n -> {"a.exe", "b.exe"}] : n \in 0..MaxExe } : TRUE }

\* inherited environments of the helper
SrEnvirons ==
    { [k \in D |-> IF k = "LD_PRELOAD" THEN "gameoverlayrenderer.so"
                   ELSE "/run/user/1000"] :
      D \in SUBSET {"LD_PRELOAD", "XDG_RUNTIME_DIR"} }

NoPrimary == [cmd |-> <<>>, env |-> <<>>, state |-> "notstarted", rc |-> 0]

SrInit ==
    /\ sr_pc = "start"
    /\ sr_args \in [verbose : {0, 1, 2},
                    executable : SrExecutables,
                    xdg_runtime_dir : {None, "/tmp/discord"},
                    game_arguments : SrGameArguments]
    /\ sr_environ \in SrEnvirons
    /\ sr_env = <<>>
    /\ sr_env_3rdparty = <<>>
    /\ third_party_processes = <<>>
    /\ procs = <<>>
    /\ sr_i = 0
    /\ primary = NoPrimary
    /\ sr_stdout = <<>>
    /\ sr_stderr = <<>>
    /\ sr_exit = None

\* the helper not started: its variables while truckersmp-cli itself is modelled
SrIdle ==
    /\ sr_pc = "idle"
    /\ sr_args = [verbose |-> 0, executable |-> <<>>, xdg_runtime_dir |-> None,
                  game_arguments |-> <<"wine", "game.exe">>]
    /\ sr_environ = <<>>
    /\ sr_env = <<>>
    /\ sr_env_3rdparty = <<>>
    /\ third_party_processes = <<>>
    /\ procs = <<>>
    /\ sr_i = 0
    /\ primary = NoPrimary
    /\ sr_stdout = <<>>
    /\ sr_stderr = <<>>
    /\ sr_exit = None

\* lines 36-49: debug print, env, env_3rdparty
SrDebugPrint ==
    IF sr_args.verbose > 1
    THEN <<"Executables", "XDG Runtime Dir", "Game Arguments">>
    ELSE <<>>

SrEnv ==
    IF sr_args.xdg_runtime_dir # None
    THEN DictSet(sr_environ, "XDG_RUNTIME_DIR", sr_args.xdg_runtime_dir)
    ELSE sr_environ

SrEnv3rdparty(e) ==
    IF "LD_PRELOAD" \in DOMAIN e THEN DictDel(e, "LD_PRELOAD") ELSE e

\* mutant: env_3rdparty is env itself, not a copy: the del reaches env too
SrSetup_Alias ==
    /\ sr_pc = "start"
    /\ sr_stdout' = sr_stdout \o SrDebugPrint
    /\ third_party_processes' = <<>>
    /\ IF sr_args.executable # <<>>
       THEN /\ sr_env' = SrEnv3rdparty(SrEnv)
            /\ sr_env_3rdparty' = SrEnv3rdparty(SrEnv)
            /\ sr_i' = 1
            /\ sr_pc' = "launch"
       ELSE /\ sr_env' = SrEnv
            /\ sr_env_3rdparty' = sr_env_3rdparty
            /\ sr_i' = sr_i
            /\ sr_pc' = "primary"
    /\ UNCHANGED <<cli_vars, sr_args, sr_environ, procs, primary, sr_stderr, sr_exit>>

SrSetup ==
    /\ sr_pc = "start"
    /\ sr_stdout' = sr_stdout \o SrDebugPrint
    /\ sr_env' = SrEnv
    /\ third_party_processes' = <<>>
    /\ IF sr_args.executable # <<>>
       THEN /\ sr_env_3rdparty' = SrEnv3rdparty(SrEnv)
            /\ sr_i' = 1
            /\ sr_pc' = "launch"
       ELSE /\ sr_env_3rdparty' = sr_env_3rdparty
            /\ sr_i' = sr_i
            /\ sr_pc' = "primary"
    /\ UNCHANGED <<cli_vars, sr_args, sr_environ, procs, primary, sr_stderr, sr_exit>>

\* an exception nobody catches: traceback on stderr, exit status 1,
\* nothing after the raising statement runs
SrUncaught(what) ==
    /\ sr_pc' = "exited"
    /\ sr_exit' = 1
    /\ sr_stderr' = Append(sr_stderr, what)

\* lines 50-55: one iteration of the launch loop
SrAuxCmd(path) == Slice0(sr_args.game_arguments, 3) \o <<path>>

\* mutant: the launch loop is left after its first iteration
SrPopen_OnlyFirst ==
    /\ sr_pc = "launch"
    /\ sr_i <= Len(sr_args.executable)
    /\ \/ /\ procs' = Append(procs, [cmd |-> SrAuxCmd(sr_args.executable[sr_i]),
                                     env |-> sr_env_3rdparty,
                                     state |-> "running",
                                     killed |-> FALSE])
          /\ third_party_processes' = Append(third_party_processes, Len(procs) + 1)
          /\ sr_i' = sr_i + 1
          /\ sr_pc' = "primary"
          /\ UNCHANGED <<sr_stderr, sr_exit>>
       \/ /\ SrUncaught("Traceback: OSError")
          /\ UNCHANGED <<procs, third_party_processes, sr_i>>
    /\ UNCHANGED <<cli_vars, sr_args, sr_environ, sr_env, sr_env_3rdparty, primary, sr_stdout>>

SrPopen ==
    /\ sr_pc = "launch"
    /\ sr_i <= Len(sr_args.executable)
    /\ \/ \* the child is started
          /\ procs' = Append(procs, [cmd |-> SrAuxCmd(sr_args.executable[sr_i]),
                                     env |-> sr_env_3rdparty,
                                     state |-> "running",
                                     killed |-> FALSE])
          /\ third_party_processes' = Append(third_party_processes, Len(procs) + 1)
          /\ sr_i' = sr_i + 1
          /\ sr_pc' = IF sr_i = Len(sr_args.executable) THEN "primary" ELSE "launch"
          /\ UNCHANGED <<sr_stderr, sr_exit>>
       \/ \* Popen raises OSError (fork or exec failed)
          /\ SrUncaught("Traceback: OSError")
          /\ UNCHANGED <<procs, third_party_processes, sr_i>>
    /\ UNCHANGED <<cli_vars, sr_args, sr_environ, sr_env, sr_env_3rdparty, primary, sr_stdout>>

\* lines 57-59: check_output starts the primary command
SrCheckOutputStart ==
    /\ sr_pc = "primary"
    /\ \/ /\ primary' = [cmd |-> sr_args.game_arguments, env |-> sr_env,
                         state |-> "running", rc |-> 0]
          /\ sr_pc' = "primary_wait"
          /\ UNCHANGED <<sr_stderr, sr_exit>>
       \/ \* check_output raises OSError: not a CalledProcessError, not caught
          /\ primary' = [cmd |-> sr_args.game_arguments, env |-> sr_env,
                         state |-> "invocation_failed", rc |-> 0]
          /\ SrUncaught("Traceback: OSError")
    /\ UNCHANGED <<cli_vars, sr_args, sr_environ, sr_env, sr_env_3rdparty,
                   third_party_processes, procs, sr_i, sr_stdout>>

\* lines 58-63: the primary command exits, check_output returns or raises
\* CalledProcessError
SrCheckOutputReturn ==
    /\ sr_pc = "primary_wait"
    /\ \E rc \in {0, 1} :
         /\ primary' = [primary EXCEPT !.state = "exited", !.rc = rc]
         /\ IF rc = 0
            THEN /\ sr_stdout' = IF sr_args.verbose # 0
                                 THEN Append(sr_stdout, "Proton output")
                                 ELSE sr_stdout
                 /\ sr_stderr' = sr_stderr
            ELSE /\ sr_stderr' = Append(sr_stderr, "Proton output")
                 /\ sr_stdout' = sr_stdout
    /\ sr_pc' = "poll"
    /\ sr_i' = 1
    /\ UNCHANGED <<cli_vars, sr_args, sr_environ, sr_env, sr_env_3rdparty,
                   third_party_processes, procs, sr_exit>>

\* lines 65-69: one iteration of the drain loop, in its three calls
SrProc == third_party_processes[sr_i]

\* proc.poll(): waitpid(WNOHANG) reaps a child that has already exited
SrPoll ==
    /\ sr_pc = "poll"
    /\ sr_i <= Len(third_party_processes)
    /\ IF procs[SrProc].state = "running"
       THEN /\ sr_pc' = "kill"
            /\ procs' = procs
       ELSE /\ sr_pc' = "wait"
            /\ procs' = [procs EXCEPT ![SrProc].state = "reaped"]
    /\ UNCHANGED <<cli_vars, sr_args, sr_environ, sr_env, sr_env_3rdparty,
                   third_party_processes, sr_i, primary,
                   sr_stdout, sr_stderr, sr_exit>>

\* proc.kill(): SIGKILL unless the child is found to have exited meanwhile
SrKill ==
    /\ sr_pc = "kill"
    /\ procs' = IF procs[SrProc].state = "running"
                THEN [procs EXCEPT ![SrProc].state = "exited",
                                   ![SrProc].killed = TRUE]
                ELSE [procs EXCEPT ![SrProc].state = "reaped"]
    /\ sr_pc' = "wait"
    /\ UNCHANGED <<cli_vars, sr_args, sr_environ, sr_env, sr_env_3rdparty,
                   third_party_processes, sr_i, primary,
                   sr_stdout, sr_stderr, sr_exit>>

\* proc.wait(): blocks until the child has exited, then reaps it
SrWait ==
    /\ sr_pc = "wait"
    /\ procs[SrProc].state \in {"exited", "reaped"}
    /\ procs' = [procs EXCEPT ![SrProc].state = "reaped"]
    /\ sr_i' = sr_i + 1
    /\ sr_pc' = "poll"
    /\ UNCHANGED <<cli_vars, sr_args, sr_environ, sr_env, sr_env_3rdparty,
                   third_party_processes, primary,
                   sr_stdout, sr_stderr, sr_exit>>

\* line 69 -> end of main(): the interpreter exits with status 0
\* mutant: the helper passes the primary command's exit status on
SrReturn_Propagate ==
    /\ sr_pc = "poll"
    /\ sr_i > Len(third_party_processes)
    /\ sr_pc' = "exited"
    /\ sr_exit' = primary.rc
    /\ UNCHANGED <<cli_vars, sr_args, sr_environ, sr_env, sr_env_3rdparty,
                   third_party_processes, procs, sr_i, primary,
                   sr_stdout, sr_stderr>>

SrReturn ==
    /\ sr_pc = "poll"
    /\ sr_i > Len(third_party_processes)
    /\ sr_pc' = "exited"
    /\ sr_exit' = 0
    /\ UNCHANGED <<cli_vars, sr_args, sr_environ, sr_env, sr_env_3rdparty,
                   third_party_processes, procs, sr_i, primary,
                   sr_stdout, sr_stderr>>

\* an auxiliary program ends by itself (any time, any status)
AuxExit ==
    /\ \E p \in DOMAIN procs :
         /\ procs[p].state = "running"
         /\ procs' = [procs EXCEPT ![p].state = "exited"]
    /\ UNCHANGED <<cli_vars, sr_pc, sr_args, sr_environ, sr_env, sr_env_3rdparty,
                   third_party_processes, sr_i, primary,
                   sr_stdout, sr_stderr, sr_exit>>

HelperNext ==
    \/ SrSetup
    \/ SrPopen
    \/ SrCheckOutputStart
    \/ SrCheckOutputReturn
    \/ SrPoll
    \/ SrKill
    \/ SrWait
    \/ SrReturn
    \/ AuxExit


(***************************************************************************)
(*        truckersmp-cli: main(), update_game(), start_with_*()            *)
(*                                                                         *)
(* A Python str is a sequence of atoms, so that "+" (\o) and os.path.join  *)
(* build values that differ when their parts differ.  NoneStr is None in   *)
(* a place that otherwise holds a str.                                     *)
(***************************************************************************)
NoneStr == <<"<None>">>

\* bool(s) of an optional str: None and "" are false
Truthy(s) == s # NoneStr /\ s # <<>>

\* os.path.join(a, b)
Join(a, b) ==
    IF b # <<>> /\ b[1] = "/" THEN b
    ELSE IF a = <<>> \/ a[Len(a)] = "/" THEN a \o b
    ELSE a \o <<"/">> \o b

\* "sub in s" for str
Contains(s, sub) ==
    \E i \in 0..(Len(s) - Len(sub)) : SubSeq(s, i + 1, i + Len(sub)) = sub

\* values of variables.py used by the modelled functions
Dir_steamcmdpfx == <<"/", "data", "/", "steamcmdpfx">>
Dir_steamcmddir == <<"/", "data", "/", "steamcmd">>
URL_steamcmdlnx == <<"https://", "steamcmd_linux.tar.gz">>
URL_steamcmdwin == <<"https://", "steamcmd.zip">>
File_inject_exe == <<"/", "data", "/", "truckersmp-cli.exe">>
File_overlayrenderer_inner == <<"ubuntu12_64/gameoverlayrenderer.so">>
sys_executable == <<"/", "usr", "/", "bin", "/", "python3">>

\* one token of a command line
Tok(a) == <<a>>

\* the parsed and checked arguments: exactly one title, exactly one layer
\* (args.proton false means Wine)
Args ==
    { a \in [proton : BOOLEAN, ets2 : BOOLEAN, ats : BOOLEAN,
             singleplayer : BOOLEAN, update : BOOLEAN, start : BOOLEAN,
             beta : {NoneStr, <<>>, <<"temporary_1_35">>},
             disable_proton_overlay : BOOLEAN,
             enable_d3d11 : {FALSE},
             use_wined3d : {FALSE},
             activate_native_d3dcompiler_47 : {FALSE},
             prefixdir : {<<"/", "prefix">>},
             gamedir : {<<"/", "game">>},
             protondir : {<<"/", "proton">>},
             moddir : {<<"/", "mod">>},
             wine_steam_dir : {<<"/", "winesteam">>},
             account : {<<"anonymous">>},
             steamid : {<<"227300">>, <<"270880">>},
             proton_appid : {<<"1245040">>}] :
        /\ a.ets2 # a.ats
        /\ a.steamid = IF a.ets2 THEN <<"227300">> ELSE <<"270880">>
        \* an option no statement of the run reads keeps its default
        /\ (~a.update => a.beta = NoneStr)
        /\ (~(a.proton /\ a.start) => ~a.disable_proton_overlay) }

TheOverlay == Join(<<"/", "steam">>, File_overlayrenderer_inner)

Environs ==
    { [k \in D |-> IF k = "WINE" THEN <<"wine-staging">> ELSE lp] :
      D \in SUBSET {"WINE", "LD_PRELOAD"},
      lp \in {<<"libgamemode.so">>, TheOverlay} }

\* state of a file: "absent", "partial" (left by a failed write) or "complete";
\* of a directory: whether it exists
FsInit ==
    [steamcmd_sh : {"absent", "complete"},
     steamcmd_exe : {"absent", "complete"},
     prefixdir : BOOLEAN]

NoLocals ==
    /\ env = <<>>
    /\ env_steam = <<>>
    /\ wine = NoneStr
    /\ steamcmd = NoneStr
    /\ steamcmd_cmd = <<>>
    /\ steamcmd_url = NoneStr
    /\ gamedir = NoneStr
    /\ branch = NoneStr
    /\ beta_branch_name = NoneStr
    /\ steamdir = NoneStr
    /\ launch_env = <<>>
    /\ argv = <<>>

CliInit ==
    /\ pc = "main"
    /\ args \in Args
    /\ environ \in Environs
    /\ fs \in FsInit
    \* files and variables the run never looks at are left out
    /\ (~args.update => fs.steamcmd_sh = "absent" /\ fs.steamcmd_exe = "absent")
    /\ (args.proton => fs.steamcmd_exe = "absent")
    /\ (~args.proton => fs.steamcmd_sh = "absent")
    /\ (~args.start => ~fs.prefixdir)
    /\ (~(args.proton /\ args.start) => "LD_PRELOAD" \notin DOMAIN environ)
    /\ ((args.proton /\ ~args.update) => "WINE" \notin DOMAIN environ)
    /\ run = 1
    /\ trace = <<>>
    /\ exit_status = -1
    /\ exit_msg = ""
    /\ NoLocals

\* truckersmp-cli not started: its variables while the helper is modelled
CliIdle ==
    /\ pc = "idle"
    /\ args = <<>>
    /\ environ = <<>>
    /\ fs = <<>>
    /\ run = 0
    /\ trace = <<>>
    /\ exit_status = -1
    /\ exit_msg = ""
    /\ NoLocals

UgLocals == <<env, env_steam, wine, steamcmd, steamcmd_cmd, steamcmd_url,
              gamedir, branch, beta_branch_name>>
StartLocals == <<steamdir, launch_env, argv>>
Inputs == <<args, environ, run>>

\* trace records; res is the outcome: of a call "0", "nonzero" (the child
\* exited with a non-zero status) or "oserror" (it could not be started), of a
\* probe "running" or "notrunning"
Call(cmd, e, res) ==
    [kind |-> "call", cmd |-> cmd, env |-> e, level |-> "", res |-> res]
Log(level, msg) ==
    [kind |-> "log", cmd |-> <<Tok(msg)>>, env |-> <<>>, level |-> level, res |-> ""]
Op(kind, what, res) ==
    [kind |-> kind, cmd |-> <<what>>, env |-> <<>>, level |-> "", res |-> res]

\* sys.exit(msg): message on stderr, exit status 1
SysExitMsg(msg) ==
    /\ pc' = "exited"
    /\ exit_status' = 1
    /\ exit_msg' = msg

\* sys.exit(): exit status 0
SysExit ==
    /\ pc' = "exited"
    /\ exit_status' = 0
    /\ exit_msg' = ""

\* an exception nobody catches: traceback, exit status 1
Uncaught(what) ==
    /\ pc' = "exited"
    /\ exit_status' = 1
    /\ exit_msg' = what


Goto(p) ==
    /\ pc' = p
    /\ UNCHANGED <<exit_status, exit_msg>>

(***************************************************************************)
(* main(), lines 111-114                                                   *)
(***************************************************************************)
MainUpdate ==
    /\ pc = "main"
    /\ IF args.update
       THEN /\ trace' = Append(trace, Log("debug", "Updating game files"))
            /\ Goto("ug_env")
       ELSE /\ trace' = trace
            /\ Goto("main_mod")
    /\ UNCHANGED <<Inputs, fs, UgLocals, StartLocals, sr_vars>>

(***************************************************************************)
(* steamcmd.py : update_game(args)                                         *)
(***************************************************************************)
\* lines 39-41
UgEnvBase ==
    DictSet(DictSet(environ, "WINEDEBUG", <<"-all">>), "WINEARCH", <<"win64">>)

\* mutant: env_steam is another name for env, not a copy of it
UgEnvSteam_Alias ==
    DictSet(DictSet(UgEnvBase, "WINEPREFIX", Dir_steamcmdpfx),
            "WINEDLLOVERRIDES", <<"winex11.drv=">>)

\* lines 42-48: env_steam = env.copy(), then the user's real prefix
UgEnvSteam ==
    DictSet(UgEnvBase, "WINEPREFIX",
            IF args.proton THEN Join(args.prefixdir, <<"pfx">>)
            ELSE args.prefixdir)

\* lines 50-53: the prefix only for SteamCMD
UgEnv ==
    DictSet(DictSet(UgEnvBase, "WINEPREFIX", Dir_steamcmdpfx),
            "WINEDLLOVERRIDES", <<"winex11.drv=">>)

\* line 55
UgWine(e) == IF "WINE" \in DOMAIN e THEN e["WINE"] ELSE <<"wine">>

\* lines 36-56
UgBuildEnv ==
    /\ pc = "ug_env"
    /\ env' = UgEnv
    /\ env_steam' = UgEnvSteam
    /\ wine' = UgWine(UgEnv)
    /\ steamcmd_cmd' = <<>>
    /\ Goto("ug_wine_version")
    /\ UNCHANGED <<Inputs, fs, trace, steamcmd, steamcmd_url, gamedir, branch,
                   beta_branch_name, StartLocals, sr_vars>>

\* lines 57-62: check_call((wine, "--version")); only CalledProcessError is caught
UgWineVersion ==
    /\ pc = "ug_wine_version"
    /\ \/ /\ trace' = trace \o <<Call(<<wine, Tok("--version")>>, env, "0"),
                                 Log("debug", "Wine is available")>>
          /\ wine' = wine
          /\ Goto("ug_select")
       \/ /\ trace' = trace \o <<Call(<<wine, Tok("--version")>>, env, "nonzero"),
                                 Log("debug", "Wine is not available")>>
          /\ wine' = NoneStr
          /\ Goto("ug_select")
       \/ /\ trace' = Append(trace, Call(<<wine, Tok("--version")>>, env, "oserror"))
          /\ wine' = wine
          /\ Uncaught("Traceback: OSError")
    /\ UNCHANGED <<Inputs, fs, env, env_steam, steamcmd, steamcmd_cmd,
                   steamcmd_url, gamedir, branch, beta_branch_name,
                   StartLocals, sr_vars>>

\* line 81: what "winepath -w" prints for a UNIX path
WinePath(path) == <<"Z:">> \o path

WinePathCmd == <<wine, Tok("winepath"), Tok("-w"), args.gamedir>>

\* lines 63-89
UgSelect ==
    /\ pc = "ug_select"
    /\ IF args.proton
       THEN /\ steamcmd' = Join(Dir_steamcmddir, <<"steamcmd.sh">>)
            /\ steamcmd_url' = URL_steamcmdlnx
            /\ gamedir' = args.gamedir
            /\ steamcmd_cmd' = Append(steamcmd_cmd, Join(Dir_steamcmddir, <<"steamcmd.sh">>))
            /\ trace' = trace
            /\ Goto("ug_fetch")
       ELSE IF wine = NoneStr
       THEN /\ SysExitMsg("Wine (None) is not available.")
            /\ UNCHANGED <<steamcmd, steamcmd_url, gamedir, steamcmd_cmd, trace>>
       ELSE \/ /\ trace' = Append(trace, Call(WinePathCmd, env, "0"))
               /\ gamedir' = WinePath(args.gamedir)
               /\ steamcmd' = Join(Dir_steamcmddir, <<"steamcmd.exe">>)
               /\ steamcmd_url' = URL_steamcmdwin
               /\ steamcmd_cmd' = steamcmd_cmd \o
                      <<wine, Join(Dir_steamcmddir, <<"steamcmd.exe">>)>>
               /\ Goto("ug_fetch")
            \/ \* any exception of check_output: non-zero exit or OSError
               /\ \E res \in {"nonzero", "oserror"} :
                     trace' = Append(trace, Call(WinePathCmd, env, res))
               /\ SysExitMsg("Failed to convert game directory to Windows path")
               /\ UNCHANGED <<steamcmd, steamcmd_url, gamedir, steamcmd_cmd>>
    /\ UNCHANGED <<Inputs, fs, env, env_steam, wine, branch, beta_branch_name,
                   StartLocals, sr_vars>>

\* the file the name steamcmd refers to
SteamcmdFile == IF args.proton THEN "steamcmd_sh" ELSE "steamcmd_exe"

\* mutant: the check looks for a directory of that name
IsFile_Dir(f) == FALSE

\* line 93: os.path.isfile(steamcmd)
IsFile(f) == fs[f] # "absent"

\* lines 91-99: fetch SteamCMD if not in our data directory
UgFetch ==
    /\ pc = "ug_fetch"
    /\ IF IsFile(SteamcmdFile)
       THEN /\ trace' = Append(trace, Log("info", "SteamCMD"))
            /\ Goto("ug_steam_linux")
       ELSE \/ /\ trace' = trace \o <<Log("debug", "Retrieving SteamCMD"),
                                      Op("download", steamcmd_url, "ok")>>
               /\ Goto("ug_extract")
            \/ /\ trace' = trace \o <<Log("debug", "Retrieving SteamCMD"),
                                      Op("download", steamcmd_url, "failed")>>
               /\ SysExitMsg("Failed to retrieve SteamCMD")
    /\ UNCHANGED <<Inputs, fs, UgLocals, StartLocals, sr_vars>>

\* lines 100-114: extractall / ZipFile.open + write; a failure may come before
\* the file is created, or after it was created and partly written
UgExtract ==
    /\ pc = "ug_extract"
    /\ \/ /\ fs' = [fs EXCEPT ![SteamcmdFile] = "complete"]
          /\ trace' = trace \o <<Log("debug", "Extracting SteamCMD"),
                                 Op("extract", steamcmd, "ok"),
                                 Log("info", "SteamCMD")>>
          /\ Goto("ug_steam_linux")
       \/ /\ \E left \in {"absent", "partial"} :
                fs' = [fs EXCEPT ![SteamcmdFile] = left]
          /\ trace' = trace \o <<Log("debug", "Extracting SteamCMD"),
                                 Op("extract", steamcmd, "failed")>>
          /\ SysExitMsg("Failed to extract SteamCMD")
    /\ UNCHANGED <<Inputs, UgLocals, StartLocals, sr_vars>>


\* lines 116-119: Linux version of Steam.  check_steam_process is asked only
\* on Linux; subproc.call returns whatever the exit status
UgCloseLinuxSteam ==
    /\ pc = "ug_steam_linux"
    /\ \E linux \in BOOLEAN, running \in BOOLEAN :
         IF linux
         THEN IF running
              THEN \/ /\ trace' = trace \o
                            <<Op("probe", Tok("linux"), "running"),
                              Log("debug", "Closing Linux version of Steam"),
                              Call(<<Tok("steam"), Tok("-shutdown")>>, environ, "0")>>
                      /\ Goto("ug_steam_wine")
                   \/ /\ trace' = trace \o
                            <<Op("probe", Tok("linux"), "running"),
                              Log("debug", "Closing Linux version of Steam"),
                              Call(<<Tok("steam"), Tok("-shutdown")>>, environ, "oserror")>>
                      /\ Uncaught("Traceback: OSError")
              ELSE /\ trace' = Append(trace, Op("probe", Tok("linux"), "notrunning"))
                   /\ Goto("ug_steam_wine")
         ELSE /\ trace' = trace
              /\ Goto("ug_steam_wine")
    /\ UNCHANGED <<Inputs, fs, UgLocals, StartLocals, sr_vars>>

\* mutant: the shutdown flag is left out (this starts Steam)
WineShutdownCmd_NoFlag ==
    <<wine, Join(args.wine_steam_dir, <<"steam.exe">>)>>

WineShutdownCmd ==
    <<wine, Join(args.wine_steam_dir, <<"steam.exe">>), Tok("-shutdown")>>

\* lines 120-125: Windows version of Steam, asked only when Wine is available
UgCloseWineSteam ==
    /\ pc = "ug_steam_wine"
    /\ IF wine # NoneStr
       THEN \/ /\ trace' = trace \o
                     <<Op("probe", Tok("wine"), "running"),
                       Log("debug", "Closing Windows version of Steam"),
                       Call(WineShutdownCmd, env_steam, "0")>>
               /\ Goto("ug_proton")
            \/ /\ trace' = trace \o
                     <<Op("probe", Tok("wine"), "running"),
                       Log("debug", "Closing Windows version of Steam"),
                       Call(WineShutdownCmd, env_steam, "oserror")>>
               /\ Uncaught("Traceback: OSError")
            \/ /\ trace' = Append(trace, Op("probe", Tok("wine"), "notrunning"))
               /\ Goto("ug_proton")
       ELSE /\ trace' = trace
            /\ Goto("ug_proton")
    /\ UNCHANGED <<Inputs, fs, UgLocals, StartLocals, sr_vars>>

\* lines 139-143
ProtonUpdateCmd ==
    <<steamcmd,
      Tok("+login"), args.account,
      Tok("+force_install_dir"), args.protondir,
      Tok("+app_update"), args.proton_appid, Tok("validate"),
      Tok("+quit")>>

\* mutant: a failed Proton update is logged and the update goes on
UgUpdateProton_Continue ==
    /\ pc = "ug_proton"
    /\ IF args.proton
       THEN \/ /\ trace' = trace \o <<Log("debug", "Updating Proton"),
                                      Call(ProtonUpdateCmd, environ, "0")>>
               /\ Goto("ug_branch")
            \/ /\ trace' = trace \o <<Log("debug", "Updating Proton"),
                                      Call(ProtonUpdateCmd, environ, "nonzero")>>
               /\ Goto("ug_branch")
       ELSE /\ trace' = trace
            /\ Goto("ug_branch")
    /\ UNCHANGED <<Inputs, fs, UgLocals, StartLocals, sr_vars>>

\* lines 127-145: download/update Proton; the call has no env= argument
UgUpdateProton ==
    /\ pc = "ug_proton"
    /\ IF args.proton
       THEN \/ /\ trace' = trace \o <<Log("debug", "Updating Proton"),
                                      Call(ProtonUpdateCmd, environ, "0")>>
               /\ Goto("ug_branch")
            \/ /\ trace' = trace \o <<Log("debug", "Updating Proton"),
                                      Call(ProtonUpdateCmd, environ, "nonzero")>>
               /\ SysExitMsg("SteamCMD exited abnormally")
            \/ /\ trace' = trace \o <<Log("debug", "Updating Proton"),
                                      Call(ProtonUpdateCmd, environ, "oserror")>>
               /\ Uncaught("Traceback: OSError")
       ELSE /\ trace' = trace
            /\ Goto("ug_branch")
    /\ UNCHANGED <<Inputs, fs, UgLocals, StartLocals, sr_vars>>

\* what get_beta_branch_name(game) can return
BetaBranchNames == {NoneStr, <<"temporary_1_36">>}

\* mutant: the detected name is preferred to the override
DetermineBranch_DetectedFirst(beta, detected) ==
    IF Truthy(detected) THEN detected
    ELSE IF Truthy(beta) THEN beta
    ELSE <<"public">>

\* lines 147-155, with detected the value get_beta_branch_name returns when asked
DetermineBranch(beta, detected) ==
    IF Truthy(beta) THEN beta
    ELSE IF Truthy(detected) THEN detected
    ELSE <<"public">>

\* lines 147-156: determine game branch
UgBranch ==
    /\ pc = "ug_branch"
    /\ \E detected \in BetaBranchNames :
         /\ branch' = DetermineBranch(args.beta, detected)
         /\ trace' = trace \o
              (IF Truthy(args.beta) THEN <<>>
               ELSE <<Op("get_beta_branch_name",
                         Tok(IF args.ats THEN "ats" ELSE "ets2"), "")>>)
              \o <<Log("info", "Game branch")>>
         /\ beta_branch_name' = detected
    /\ Goto("ug_game")
    /\ UNCHANGED <<Inputs, fs, env, env_steam, wine, steamcmd, steamcmd_cmd,
                   steamcmd_url, gamedir, StartLocals, sr_vars>>

\* lines 169-177
SteamcmdArgs ==
    <<Tok("+@sSteamCmdForcePlatformType"), Tok("windows"),
      Tok("+login"), args.account,
      Tok("+force_install_dir"), gamedir,
      Tok("+app_update"), args.steamid,
      Tok("-beta"), branch,
      Tok("validate"),
      Tok("+quit")>>

\* lines 158-181: use SteamCMD to update the chosen game
UgUpdateGame ==
    /\ pc = "ug_game"
    /\ \/ /\ trace' = trace \o <<Log("debug", "Updating Game"),
                                 Call(steamcmd_cmd \o SteamcmdArgs, env, "0")>>
          /\ Goto("main_mod")
       \/ /\ trace' = trace \o <<Log("debug", "Updating Game"),
                                 Call(steamcmd_cmd \o SteamcmdArgs, env, "nonzero")>>
          /\ SysExitMsg("SteamCMD exited abnormally")
       \/ /\ trace' = trace \o <<Log("debug", "Updating Game"),
                                 Call(steamcmd_cmd \o SteamcmdArgs, env, "oserror")>>
          /\ Uncaught("Traceback: OSError")
    /\ UNCHANGED <<Inputs, fs, UgLocals, StartLocals, sr_vars>>


(***************************************************************************)
(* main(), lines 116-131                                                   *)
(***************************************************************************)
\* mutant: the mod is updated in singleplayer mode too
MainUpdateMod_Always ==
    /\ pc = "main_mod"
    /\ \/ /\ trace' = trace \o <<Log("debug", "Updating mod files"),
                                 Op("update_mod", args.moddir, "ok")>>
          /\ Goto("main_start")
       \/ /\ trace' = trace \o <<Log("debug", "Updating mod files"),
                                 Op("update_mod", args.moddir, "failed")>>
          /\ SysExitMsg("Failed to update the mod")
    /\ UNCHANGED <<Inputs, fs, UgLocals, StartLocals, sr_vars>>

\* lines 116-119: update truckersmp when starting multiplayer.  update_mod
\* returns, or ends the run with a message
MainUpdateMod ==
    /\ pc = "main_mod"
    /\ IF ~args.singleplayer
       THEN \/ /\ trace' = trace \o <<Log("debug", "Updating mod files"),
                                      Op("update_mod", args.moddir, "ok")>>
               /\ Goto("main_start")
            \/ /\ trace' = trace \o <<Log("debug", "Updating mod files"),
                                      Op("update_mod", args.moddir, "failed")>>
               /\ SysExitMsg("Failed to update the mod")
       ELSE /\ trace' = trace
            /\ Goto("main_start")
    /\ UNCHANGED <<Inputs, fs, UgLocals, StartLocals, sr_vars>>

\* lines 121-131: start truckersmp with proton or wine
MainStart ==
    /\ pc = "main_start"
    /\ IF args.start
       THEN \/ /\ trace' = trace
               /\ SysExitMsg("SDL2 was not found on your system.")
            \/ /\ trace' = Append(trace, Log("debug",
                      IF args.proton THEN "Starting game with Proton"
                      ELSE "Starting game with Wine"))
               /\ Goto(IF args.proton THEN "sp_steam" ELSE "sw_steam")
       ELSE /\ trace' = trace
            /\ SysExit
    /\ UNCHANGED <<Inputs, fs, UgLocals, StartLocals, sr_vars>>

(***************************************************************************)
(* start_with_proton()                                                     *)
(***************************************************************************)
\* what wait_for_steam(use_proton=True, ...) can return
SteamDirs == {<<"/", "steam">>}

\* mutant: the prefix directory is not created
SpPrepare_NoMakedirs ==
    /\ pc = "sp_steam"
    /\ \E sd \in SteamDirs :
         /\ steamdir' = sd
         /\ trace' = trace
              \o <<Op("wait_for_steam", Tok("proton"), ""),
                   Log("info", "Steam installation directory")>>
              \o (IF fs.prefixdir THEN <<>>
                  ELSE <<Log("debug", "Creating directory")>>)
    /\ fs' = fs
    /\ Goto("sp_build")
    /\ UNCHANGED <<Inputs, UgLocals, launch_env, argv, sr_vars>>

\* lines 136-149
SpPrepare ==
    /\ pc = "sp_steam"
    /\ \E sd \in SteamDirs :
         /\ steamdir' = sd
         /\ trace' = trace
              \o <<Op("wait_for_steam", Tok("proton"), ""),
                   Log("info", "Steam installation directory")>>
              \o (IF fs.prefixdir THEN <<>>
                  ELSE <<Log("debug", "Creating directory")>>)
              \o <<Op("makedirs", args.prefixdir, "")>>
              \o (IF args.activate_native_d3dcompiler_47
                  THEN <<Op("activate_native_d3dcompiler_47",
                            Join(args.prefixdir, <<"pfx">>), "")>>
                  ELSE <<>>)
    /\ fs' = [fs EXCEPT !.prefixdir = TRUE]
    /\ Goto("sp_build")
    /\ UNCHANGED <<Inputs, UgLocals, launch_env, argv, sr_vars>>

\* lines 151-157
SpEnvBase(sd) ==
    DictSet(DictSet(DictSet(DictSet(DictSet(DictSet(environ,
        "SteamGameId", args.steamid),
        "SteamAppId", args.steamid),
        "STEAM_COMPAT_DATA_PATH", args.prefixdir),
        "STEAM_COMPAT_CLIENT_INSTALL_PATH", sd),
        "PROTON_USE_WINED3D", IF args.use_wined3d THEN <<"1">> ELSE <<"0">>),
        "PROTON_NO_D3D11", IF ~args.enable_d3d11 THEN <<"1">> ELSE <<"0">>)

\* line 162
Overlayrenderer(sd) == Join(sd, File_overlayrenderer_inner)

\* mutant: LD_PRELOAD is assigned, not appended to
SpEnv_Overwrite(sd) ==
    IF args.disable_proton_overlay
    THEN SpEnvBase(sd)
    ELSE DictSet(SpEnvBase(sd), "LD_PRELOAD", Overlayrenderer(sd))

\* lines 158-166: enable Steam Overlay unless "--disable-proton-overlay"
SpEnv(sd) ==
    IF args.disable_proton_overlay
    THEN SpEnvBase(sd)
    ELSE IF "LD_PRELOAD" \in DOMAIN SpEnvBase(sd)
    THEN DictSet(SpEnvBase(sd), "LD_PRELOAD",
                 SpEnvBase(sd)["LD_PRELOAD"] \o <<":">> \o Overlayrenderer(sd))
    ELSE DictSet(SpEnvBase(sd), "LD_PRELOAD", Overlayrenderer(sd))

\* lines 168-176
SpArgv ==
    <<sys_executable, Join(args.protondir, <<"proton">>), Tok("run")>> \o
    (IF args.singleplayer
     THEN <<Join(Join(args.gamedir, <<"bin/win_x64">>),
                 IF args.ets2 THEN <<"eurotrucks2.exe">> ELSE <<"amtrucks.exe">>),
            Tok("-nointro"), Tok("-64bit")>>
     ELSE <<File_inject_exe, args.gamedir, args.moddir>>)

\* lines 151-192
SpBuild ==
    /\ pc = "sp_build"
    /\ launch_env' = SpEnv(steamdir)
    /\ argv' = SpArgv
    /\ trace' = Append(trace, Log("info", "Startup command"))
    /\ Goto("sp_run")
    /\ UNCHANGED <<Inputs, fs, UgLocals, steamdir, sr_vars>>

\* mutant: a non-zero exit of the game ends the run like a failed update
SpRun_Fatal ==
    /\ pc = "sp_run"
    /\ \/ /\ trace' = trace \o <<Call(argv, launch_env, "0"),
                                 Log("info", "Proton output")>>
          /\ Goto("main_exit")
       \/ /\ trace' = trace \o <<Call(argv, launch_env, "nonzero"),
                                 Log("error", "Proton output")>>
          /\ SysExitMsg("Proton exited abnormally")
    /\ UNCHANGED <<Inputs, fs, UgLocals, StartLocals, sr_vars>>

\* lines 193-197: check_output; only CalledProcessError is caught
SpRun ==
    /\ pc = "sp_run"
    /\ \/ /\ trace' = trace \o <<Call(argv, launch_env, "0"),
                                 Log("info", "Proton output")>>
          /\ Goto("main_exit")
       \/ /\ trace' = trace \o <<Call(argv, launch_env, "nonzero"),
                                 Log("error", "Proton output")>>
          /\ Goto("main_exit")
       \/ /\ trace' = Append(trace, Call(argv, launch_env, "oserror"))
          /\ Uncaught("Traceback: OSError")
    /\ UNCHANGED <<Inputs, fs, UgLocals, StartLocals, sr_vars>>

(***************************************************************************)
(* start_with_wine()                                                       *)
(***************************************************************************)
\* line 202
SwWine == IF "WINE" \in DOMAIN environ THEN environ["WINE"] ELSE <<"wine">>

\* lines 206-209
SwEnvBase ==
    DictSet(DictSet(DictSet(environ,
        "WINEDEBUG", <<"-all">>),
        "WINEARCH", <<"win64">>),
        "WINEPREFIX", args.prefixdir)

\* lines 218-221
SwEnv ==
    LET e == IF "WINEDLLOVERRIDES" \notin DOMAIN SwEnvBase
             THEN DictSet(SwEnvBase, "WINEDLLOVERRIDES", <<>>)
             ELSE SwEnvBase
    IN  IF ~args.enable_d3d11
        THEN DictSet(e, "WINEDLLOVERRIDES",
                     e["WINEDLLOVERRIDES"] \o <<";d3d11=;dxgi=">>)
        ELSE e

\* mutant: the two titles' executables are swapped
SwArgv_Swapped ==
    <<wine>> \o
    (IF args.singleplayer
     THEN <<Join(Join(args.gamedir, <<"bin/win_x64">>),
                 IF args.ets2 THEN <<"amtrucks.exe">> ELSE <<"eurotrucks2.exe">>),
            Tok("-nointro"), Tok("-64bit")>>
     ELSE <<File_inject_exe, args.gamedir, args.moddir>>)

\* lines 223-229
SwArgv ==
    <<wine>> \o
    (IF args.singleplayer
     THEN <<Join(Join(args.gamedir, <<"bin/win_x64">>),
                 IF args.ets2 THEN <<"eurotrucks2.exe">> ELSE <<"amtrucks.exe">>),
            Tok("-nointro"), Tok("-64bit")>>
     ELSE <<File_inject_exe, args.gamedir, args.moddir>>)

\* lines 202-217
SwPrepare ==
    /\ pc = "sw_steam"
    /\ wine' = SwWine
    /\ launch_env' = SwEnvBase
    /\ trace' = trace
         \o (IF args.activate_native_d3dcompiler_47
             THEN <<Op("activate_native_d3dcompiler_47", args.prefixdir, "")>>
             ELSE <<>>)
         \o <<Op("wait_for_steam", Tok("wine"), "")>>
    /\ Goto("sw_build")
    /\ UNCHANGED <<Inputs, fs, env, env_steam, steamcmd, steamcmd_cmd,
                   steamcmd_url, gamedir, branch, beta_branch_name,
                   steamdir, argv, sr_vars>>

\* lines 218-236
SwBuild ==
    /\ pc = "sw_build"
    /\ launch_env' = SwEnv
    /\ argv' = SwArgv
    /\ trace' = Append(trace, Log("info", "Startup command"))
    /\ Goto("sw_run")
    /\ UNCHANGED <<Inputs, fs, UgLocals, steamdir, sr_vars>>

\* lines 237-241: check_output; only CalledProcessError is caught
SwRun ==
    /\ pc = "sw_run"
    /\ \/ /\ trace' = trace \o <<Call(argv, launch_env, "0"),
                                 Log("info", "Wine output")>>
          /\ Goto("main_exit")
       \/ /\ trace' = trace \o <<Call(argv, launch_env, "nonzero"),
                                 Log("error", "Wine output")>>
          /\ Goto("main_exit")
       \/ /\ trace' = Append(trace, Call(argv, launch_env, "oserror"))
          /\ Uncaught("Traceback: OSError")
    /\ UNCHANGED <<Inputs, fs, UgLocals, StartLocals, sr_vars>>

\* line 131: sys.exit()
MainExit ==
    /\ pc = "main_exit"
    /\ SysExit
    /\ UNCHANGED <<Inputs, fs, trace, UgLocals, StartLocals, sr_vars>>

\* the user runs truckersmp-cli again, same arguments, same file system
NewRun ==
    /\ pc = "exited"
    /\ run < MaxRuns
    /\ run' = run + 1
    /\ pc' = "main"
    /\ trace' = <<>>
    /\ exit_status' = -1
    /\ exit_msg' = ""
    /\ env' = <<>>
    /\ env_steam' = <<>>
    /\ wine' = NoneStr
    /\ steamcmd' = NoneStr
    /\ steamcmd_cmd' = <<>>
    /\ steamcmd_url' = NoneStr
    /\ gamedir' = NoneStr
    /\ branch' = NoneStr
    /\ beta_branch_name' = NoneStr
    /\ steamdir' = NoneStr
    /\ launch_env' = <<>>
    /\ argv' = <<>>
    /\ UNCHANGED <<args, environ, fs, sr_vars>>

Init == CliInit /\ SrIdle

Next ==
    \/ MainUpdate
    \/ UgBuildEnv
    \/ UgWineVersion
    \/ UgSelect
    \/ UgFetch
    \/ UgExtract
    \/ UgCloseLinuxSteam
    \/ UgCloseWineSteam
    \/ UgUpdateProton
    \/ UgBranch
    \/ UgUpdateGame
    \/ MainUpdateMod
    \/ MainStart
    \/ SpPrepare
    \/ SpBuild
    \/ SpRun
    \/ SwPrepare
    \/ SwBuild
    \/ SwRun
    \/ MainExit
    \/ NewRun

Spec == Init /\ [][Next]_vars

HelperInit == SrInit /\ CliIdle

HelperSpec == HelperInit /\ [][HelperNext]_vars


(***************************************************************************)
(*                            Properties                                   *)
(***************************************************************************)
AllReaped == \A p \in DOMAIN procs : procs[p].state = "reaped"

\* C1: however the primary command terminates (exit status zero, non-zero, or
\* it could not be invoked at all), when the helper has exited no auxiliary
\* process is alive or unreaped.
C1_DrainedAfterPrimary ==
    (sr_pc = "exited" /\ primary.state # "notstarted") => AllReaped

\* C2: on every exit path of the helper, also when launching the k-th
\* auxiliary executable fails after k-1 were started, every auxiliary process
\* that was created has been reaped when the helper exits.
C2_ReapedOnEveryExit ==
    sr_pc = "exited" => AllReaped

\* C7: whatever happens to the auxiliary processes (one cannot be launched, one
\* exits early), the primary command is still started and runs to completion:
\* a helper that has exited, and whose primary command could be invoked, has a
\* primary command that ran and exited.
C7_AuxFailureNeverAbortsPrimary ==
    (sr_pc = "exited" /\ primary.state # "invocation_failed")
        => primary.state = "exited"


(***************************************************************************)
(* Reading the trace of a run of truckersmp-cli                            *)
(***************************************************************************)
HasTok(cmd, t) == \E i \in DOMAIN cmd : cmd[i] = Tok(t)
IsCall(e) == e.kind = "call"
IsAppUpdate(e) == IsCall(e) /\ HasTok(e.cmd, "+app_update")
IsProtonUpdate(e) == IsAppUpdate(e) /\ ~HasTok(e.cmd, "-beta")
IsGameUpdate(e) == IsAppUpdate(e) /\ HasTok(e.cmd, "-beta")
IsShutdown(e) == IsCall(e) /\ e.cmd[Len(e.cmd)] = Tok("-shutdown")
IsLinuxShutdown(e) == IsShutdown(e) /\ e.cmd[1] = Tok("steam")
IsWineShutdown(e) ==
    IsShutdown(e) /\ Contains(e.cmd[Len(e.cmd) - 1], <<"steam.exe">>)
IsProbeRunning(e, which) ==
    e.kind = "probe" /\ e.cmd = <<Tok(which)>> /\ e.res = "running"
IsGameLaunch(e) == IsCall(e) /\ argv # <<>> /\ e.cmd = argv
IsFetchOp(e) == e.kind \in {"download", "extract"}

\* C3: in update_game, the shutdown of every platform client found running
\* (the native one, the one under Wine) is requested before any app_update
\* command is run: each app_update call in the trace comes after the probe
\* that found a client and after the shutdown call that followed it.
C3_ShutdownBeforeAppUpdate ==
    \A i \in DOMAIN trace :
        /\ (IsProbeRunning(trace[i], "linux") =>
                /\ \A u \in 1..i : ~IsAppUpdate(trace[u])
                /\ \A u \in DOMAIN trace : IsAppUpdate(trace[u]) =>
                      \E k \in (i + 1)..(u - 1) : IsLinuxShutdown(trace[k]))
        /\ (IsProbeRunning(trace[i], "wine") =>
                /\ \A u \in 1..i : ~IsAppUpdate(trace[u])
                /\ \A u \in DOMAIN trace : IsAppUpdate(trace[u]) =>
                      \E k \in (i + 1)..(u - 1) : IsWineShutdown(trace[k]))

\* both clients were found running, both were asked to shut down, and both
\* update commands have run
C3_Witness ==
    /\ \E i \in DOMAIN trace : IsProbeRunning(trace[i], "linux")
    /\ \E i \in DOMAIN trace : IsProbeRunning(trace[i], "wine")
    /\ \E i \in DOMAIN trace : IsProtonUpdate(trace[i])
    /\ \E i \in DOMAIN trace : IsGameUpdate(trace[i])

\* C4: every step of the update is a hard stop: an app_update command that
\* exits non-zero is the last thing the run does (no game update after a failed
\* Proton update, no mod update, no game launch), and the run ends with a
\* non-zero exit status and the message "SteamCMD exited abnormally".
C4_UpdateFailureIsHardStop ==
    \A i \in DOMAIN trace :
        (IsAppUpdate(trace[i]) /\ trace[i].res = "nonzero") =>
            /\ i = Len(trace)
            /\ \A j \in DOMAIN trace : j # i => ~IsGameUpdate(trace[j])
            /\ \A j \in DOMAIN trace :
                  trace[j].kind # "update_mod" /\ ~IsGameLaunch(trace[j])
            /\ pc = "exited"
            /\ exit_status # 0
            /\ exit_msg = "SteamCMD exited abnormally"

\* the Proton update exited non-zero in a run that was asked to update, to
\* update the mod and to start the game
C4_Witness ==
    /\ args.start /\ ~args.singleplayer
    /\ trace # <<>>
    /\ IsProtonUpdate(trace[Len(trace)])
    /\ trace[Len(trace)].res = "nonzero"

\* the branch a game update command line names: the token after "-beta"
BranchOf(cmd) == cmd[(CHOOSE i \in DOMAIN cmd : cmd[i] = Tok("-beta")) + 1]

\* the precedence: override, then detected name, then "public"
C5_Expected(b) ==
    /\ (Truthy(args.beta) => b = args.beta)
    /\ (~Truthy(args.beta) /\ Truthy(beta_branch_name) => b = beta_branch_name)
    /\ (~Truthy(args.beta) /\ ~Truthy(beta_branch_name) => b = <<"public">>)

\* C5: the branch given to the game update command is resolved once per run,
\* with precedence explicit override (args.beta) > detected beta branch name >
\* "public" (a value that is None or empty counts as not present).
C5_BranchPrecedence ==
    /\ Cardinality({i \in DOMAIN trace : trace[i] = Log("info", "Game branch")}) <= 1
    /\ (branch # NoneStr => C5_Expected(branch))
    /\ \A i \in DOMAIN trace :
          IsGameUpdate(trace[i]) => C5_Expected(BranchOf(trace[i].cmd))

\* a game update ran with an override although a different beta branch name
\* was there to be detected
C5_Witness ==
    /\ Truthy(args.beta) /\ Truthy(beta_branch_name)
    /\ args.beta # beta_branch_name
    /\ \E i \in DOMAIN trace :
          IsGameUpdate(trace[i]) /\ BranchOf(trace[i].cmd) = args.beta

\* C6: under both layers, when the game command returns, whatever its exit
\* status, its output is logged (error level for a non-zero status, info level
\* for zero) and the run goes on to its normal end with exit status 0.
C6_GameFailureNotFatal ==
    \A i \in DOMAIN trace :
        (IsGameLaunch(trace[i]) /\ trace[i].res \in {"0", "nonzero"}) =>
            /\ i + 1 = Len(trace)
            /\ trace[i + 1].kind = "log"
            /\ trace[i + 1].level = (IF trace[i].res = "0" THEN "info" ELSE "error")
            /\ pc \in {"main_exit", "exited"}
            /\ (pc = "exited" => exit_status = 0 /\ exit_msg = "")

\* the game exited non-zero under Wine and the run has ended
C6_Witness ==
    /\ ~args.proton
    /\ pc = "exited"
    /\ \E i \in DOMAIN trace : IsGameLaunch(trace[i]) /\ trace[i].res = "nonzero"

\* the operations a step adds to the trace
Added == IF Len(trace') > Len(trace)
         THEN {trace'[i] : i \in (Len(trace) + 1)..Len(trace')}
         ELSE {}

\* C8: provisioning does nothing when the binary is there: a step of
\* update_game downloads or extracts only when the expected SteamCMD binary is
\* not in the install directory, and the check of a binary that is there goes
\* straight on, file system untouched.
C8_NoFetchWhenPresent ==
    [][ /\ ((\E e \in Added : IsFetchOp(e)) => fs[SteamcmdFile] = "absent")
        /\ ((pc = "ug_fetch" /\ fs[SteamcmdFile] # "absent") =>
               /\ pc' = "ug_steam_linux"
               /\ fs' = fs) ]_vars

\* a second run, over the binary that the first run left, is past the check
\* and has downloaded nothing
C8_Witness ==
    /\ run = 2
    /\ pc = "ug_steam_linux"
    /\ fs[SteamcmdFile] = "complete"
    /\ \A i \in DOMAIN trace : ~IsFetchOp(trace[i])


\* the Proton launch builder has built the environment of the game command
ProtonEnvBuilt == args.proton /\ pc \in {"sp_run", "main_exit", "exited"} /\ launch_env # <<>>

\* the overlay part of C9, for an enabled overlay
OverlayAppended ==
    ~args.disable_proton_overlay =>
        /\ "LD_PRELOAD" \in DOMAIN launch_env
        /\ launch_env["LD_PRELOAD"] =
              (IF "LD_PRELOAD" \in DOMAIN environ
               THEN environ["LD_PRELOAD"] \o <<":">> \o Overlayrenderer(steamdir)
               ELSE Overlayrenderer(steamdir))

\* C9 as stated: with the overlay disabled the environment built by the Proton
\* launch builder never contains the overlay library path; with the overlay
\* enabled LD_PRELOAD is the inherited value, ":" and the overlay path, or the
\* overlay path alone when nothing was inherited.
C9_Original ==
    ProtonEnvBuilt =>
        /\ (args.disable_proton_overlay =>
               \A k \in DOMAIN launch_env :
                   ~Contains(launch_env[k], Overlayrenderer(steamdir)))
        /\ OverlayAppended

\* C9 amended: with the overlay disabled the builder adds no overlay path:
\* LD_PRELOAD is exactly as inherited (absent when it was absent), and a
\* variable of the built environment contains the overlay library path only if
\* it was inherited with that value; with the overlay enabled LD_PRELOAD is the
\* inherited value, ":" and the overlay path, or the overlay path alone.
C9_OverlayEnv ==
    ProtonEnvBuilt =>
        /\ (args.disable_proton_overlay =>
               /\ ("LD_PRELOAD" \in DOMAIN launch_env <=> "LD_PRELOAD" \in DOMAIN environ)
               /\ \A k \in DOMAIN launch_env :
                     Contains(launch_env[k], Overlayrenderer(steamdir)) =>
                         k \in DOMAIN environ /\ environ[k] = launch_env[k])
        /\ OverlayAppended

\* the overlay is disabled, the inherited LD_PRELOAD names the overlay library,
\* and the game command is about to run
C9_Witness ==
    /\ ProtonEnvBuilt
    /\ pc = "sp_run"
    /\ args.disable_proton_overlay
    /\ "LD_PRELOAD" \in DOMAIN environ
    /\ Contains(environ["LD_PRELOAD"], Overlayrenderer(steamdir))

\* the launcher prefix of each layer
ProtonPrefix == <<sys_executable, args.protondir \o <<"/", "proton">>, <<"run">>>>
WinePrefix == <<IF "WINE" \in DOMAIN environ THEN environ["WINE"] ELSE <<"wine">>>>
PrefixLen == IF args.proton THEN Len(ProtonPrefix) ELSE Len(WinePrefix)

AfterPrefix(v, n) == SubSeq(v, n + 1, Len(v))

\* what C10 says follows the launcher prefix
C10_Expected ==
    IF args.singleplayer
    THEN << args.gamedir \o <<"/", "bin/win_x64", "/">> \o
              (IF args.ets2 THEN <<"eurotrucks2.exe">> ELSE <<"amtrucks.exe">>),
            <<"-nointro">>, <<"-64bit">> >>
    ELSE <<File_inject_exe, args.gamedir, args.moddir>>

\* C10: what follows the launcher prefix in the argument vector does not
\* depend on the layer that built it: in single-player mode the executable of
\* the selected title under the game directory, "-nointro", "-64bit"; in
\* multiplayer mode the injector, the game directory, the mod directory.
C10_SameArgvAfterPrefix ==
    /\ (argv # <<>> =>
           /\ SubSeq(argv, 1, PrefixLen) = (IF args.proton THEN ProtonPrefix ELSE WinePrefix)
           /\ AfterPrefix(argv, PrefixLen) = C10_Expected)
    /\ (pc \in {"sp_build", "sw_build"} =>
           AfterPrefix(SpArgv, Len(ProtonPrefix)) = AfterPrefix(SwArgv, Len(WinePrefix)))

\* Wine has built the command line of single-player American Truck Simulator
C10_Witness ==
    /\ pc = "sw_run"
    /\ ~args.proton /\ args.singleplayer /\ args.ats
    /\ argv # <<>>

\* the first three tokens of the primary command (all of them when it has fewer)
FirstThree ==
    [i \in 1..(IF Len(sr_args.game_arguments) < 3
               THEN Len(sr_args.game_arguments)
               ELSE 3) |-> sr_args.game_arguments[i]]

\* the environment the helper inherited, with the --xdg-runtime-dir override
C11_PrimaryEnv(e) ==
    /\ DOMAIN e = DOMAIN sr_environ \cup
                    (IF sr_args.xdg_runtime_dir # None THEN {"XDG_RUNTIME_DIR"} ELSE {})
    /\ \A k \in DOMAIN e :
          e[k] = IF k = "XDG_RUNTIME_DIR" /\ sr_args.xdg_runtime_dir # None
                 THEN sr_args.xdg_runtime_dir
                 ELSE sr_environ[k]

\* C11: each auxiliary executable is started with the first three tokens of the
\* primary command followed by its path, in an environment without LD_PRELOAD
\* that otherwise equals the primary's; the primary command runs with the
\* inherited LD_PRELOAD untouched, and both see the same XDG_RUNTIME_DIR.
C11_AuxCommandAndEnv ==
    /\ \A p \in DOMAIN procs :
          /\ procs[p].cmd = FirstThree \o <<sr_args.executable[p]>>
          /\ "LD_PRELOAD" \notin DOMAIN procs[p].env
          /\ DOMAIN procs[p].env = DOMAIN sr_env \ {"LD_PRELOAD"}
          /\ \A k \in DOMAIN procs[p].env : procs[p].env[k] = sr_env[k]
    /\ (sr_pc \notin {"idle", "start"} => C11_PrimaryEnv(sr_env))
    /\ (primary.state # "notstarted" =>
          /\ primary.cmd = sr_args.game_arguments
          /\ C11_PrimaryEnv(primary.env))

\* LD_PRELOAD and an XDG_RUNTIME_DIR override: an auxiliary process was started
\* and the primary command is running
C11_Witness ==
    /\ primary.state = "running"
    /\ procs # <<>>
    /\ "LD_PRELOAD" \in DOMAIN sr_environ
    /\ "LD_PRELOAD" \in DOMAIN primary.env
    /\ sr_args.xdg_runtime_dir # None
    /\ Len(sr_args.game_arguments) > Len(FirstThree)

\* C12: the helper's exit status does not depend on the primary command's:
\* once the primary command has run and exited, with status zero or not, the
\* helper exits with status 0; after a non-zero status it has printed the
\* captured output to standard error, after status zero nothing.
C12_ExitStatusIgnoresPrimary ==
    (sr_pc = "exited" /\ primary.state = "exited") =>
        /\ sr_exit = 0
        /\ (primary.rc # 0 => sr_stderr = <<"Proton output">>)
        /\ (primary.rc = 0 => sr_stderr = <<>>)

\* the primary command exited non-zero and the helper has exited
C12_Witness ==
    /\ sr_pc = "exited"
    /\ primary.state = "exited"
    /\ primary.rc # 0
    /\ procs # <<>>

\* C18: every configured auxiliary executable is launched once, in the order
\* given, and all of them before the primary command is started; the helper
\* kills an auxiliary process only after the primary command has exited.
C18_LaunchOrderAndKillBarrier ==
    /\ Len(procs) <= Len(sr_args.executable)
    /\ third_party_processes = [i \in 1..Len(procs) |-> i]
    /\ \A p \in DOMAIN procs :
          procs[p].cmd[Len(procs[p].cmd)] = sr_args.executable[p]
    /\ (primary.state # "notstarted" => Len(procs) = Len(sr_args.executable))
    /\ \A p \in DOMAIN procs :
          (procs[p].killed \/ procs[p].state = "reaped") => primary.state = "exited"
    /\ (sr_pc \in {"poll", "kill", "wait"} => primary.state = "exited")

\* two auxiliary executables were launched, the primary command has exited and
\* the helper has killed one of them
C18_Witness ==
    /\ Len(procs) = Len(sr_args.executable)
    /\ Len(procs) > 1
    /\ sr_args.executable[1] # sr_args.executable[Len(procs)]
    /\ primary.state = "exited"
    /\ \E p \in DOMAIN procs : procs[p].killed

\* C13 as stated: under both layers, whenever the game command is executed the
\* prefix directory exists.
C13_Original ==
    /\ (pc \in {"sp_run", "sw_run"} => fs.prefixdir)
    /\ \A i \in DOMAIN trace : IsGameLaunch(trace[i]) => fs.prefixdir

\* C13 amended: the Proton launch builder ensures that the prefix directory
\* exists before the game command is executed, whether or not it existed at the
\* start of the run; the Wine launch builder creates nothing and hands the
\* directory to Wine as WINEPREFIX.
C13_ProtonPrefixExists ==
    /\ (pc = "sp_run" => fs.prefixdir)
    /\ \A i \in DOMAIN trace :
          IsGameLaunch(trace[i]) =>
              IF args.proton
              THEN /\ fs.prefixdir
                   /\ \E j \in 1..(i - 1) :
                         trace[j] = Op("makedirs", args.prefixdir, "")
              ELSE /\ "WINEPREFIX" \in DOMAIN trace[i].env
                   /\ trace[i].env["WINEPREFIX"] = args.prefixdir

\* Proton: the directory did not exist when the run began and the game command
\* has been executed
C13_Witness ==
    /\ args.proton
    /\ run = 1
    /\ \E i \in DOMAIN trace : trace[i] = Log("debug", "Creating directory")
    /\ \E i \in DOMAIN trace : IsGameLaunch(trace[i])

\* the variant with the isolated SteamCMD prefix
C14_Isolated(e) ==
    /\ {"WINEPREFIX", "WINEDLLOVERRIDES"} \subseteq DOMAIN e
    /\ e["WINEPREFIX"] = Dir_steamcmdpfx
    /\ e["WINEDLLOVERRIDES"] = <<"winex11.drv=">>

\* the variant with the user's real prefix; the DLL override was not set in it
C14_Real(e) ==
    /\ "WINEPREFIX" \in DOMAIN e
    /\ e["WINEPREFIX"] = (IF args.proton THEN args.prefixdir \o <<"/", "pfx">>
                          ELSE args.prefixdir)
    /\ ("WINEDLLOVERRIDES" \in DOMAIN e) = ("WINEDLLOVERRIDES" \in DOMAIN environ)
    /\ "WINEDLLOVERRIDES" \in DOMAIN e =>
          e["WINEDLLOVERRIDES"] = environ["WINEDLLOVERRIDES"]

\* every other variable is as inherited
C14_Inherits(e) ==
    \A k \in DOMAIN environ \ {"WINEPREFIX", "WINEDLLOVERRIDES",
                               "WINEDEBUG", "WINEARCH"} :
       k \in DOMAIN e /\ e[k] = environ[k]

\* C14 as stated: every update-client invocation runs with the isolated-prefix
\* variant.
C14_Original ==
    \A i \in DOMAIN trace : IsAppUpdate(trace[i]) => C14_Isolated(trace[i].env)

\* C14 amended: once built, the update variant carries the isolated prefix and
\* the winex11.drv= override, the probe/shutdown variant carries the real
\* prefix and no override of its own, and neither write reached the other
\* variant or the inherited environment; the Windows-client shutdown runs with
\* the real-prefix variant, the game update with the isolated one, and the
\* Proton update with the inherited environment.
C14_EnvVariants ==
    /\ env # <<>> =>
          /\ C14_Isolated(env) /\ C14_Inherits(env)
          /\ C14_Real(env_steam) /\ C14_Inherits(env_steam)
          /\ ~C14_Isolated(env_steam)
    /\ \A i \in DOMAIN trace :
          /\ IsWineShutdown(trace[i]) =>
                C14_Real(trace[i].env) /\ trace[i].env = env_steam
          /\ IsGameUpdate(trace[i]) =>
                C14_Isolated(trace[i].env) /\ trace[i].env = env
          /\ IsProtonUpdate(trace[i]) => trace[i].env = environ

\* a Proton run that shut the Windows client down and ran both updates
C14_Witness ==
    /\ args.proton
    /\ \E i \in DOMAIN trace : IsWineShutdown(trace[i])
    /\ \E i \in DOMAIN trace : IsProtonUpdate(trace[i])
    /\ \E i \in DOMAIN trace : IsGameUpdate(trace[i])

IsUpdateMod(e) == e.kind = "update_mod"

\* the set of trace indices S has at most one element
AtMostOnce(S) == \A i, j \in S : i = j

\* C15: in a run of main the game update (only if requested) completes before
\* the mod update (only in multiplayer mode), which completes before the game
\* command is executed (only if start is requested); each happens at most once
\* and the game command is never executed before a requested update succeeded.
C15_PhaseOrder ==
    LET U == {i \in DOMAIN trace : IsGameUpdate(trace[i])}
        A == {i \in DOMAIN trace : IsAppUpdate(trace[i])}
        M == {i \in DOMAIN trace : IsUpdateMod(trace[i])}
        G == {i \in DOMAIN trace : IsGameLaunch(trace[i])}
    IN  /\ AtMostOnce(U) /\ AtMostOnce(M) /\ AtMostOnce(G)
        /\ A # {} => args.update
        /\ M # {} => ~args.singleplayer
        /\ G # {} => args.start
        /\ \A a \in A, m \in M : a < m
        /\ \A m \in M, g \in G : m < g
        /\ \A a \in A, g \in G : a < g
        /\ \A j \in M \cup G :
              /\ args.update =>
                    \E i \in U : i < j /\ trace[i].res = "0"
              /\ \A a \in A : trace[a].res = "0"
        /\ \A g \in G :
              ~args.singleplayer => \E m \in M : trace[m].res = "ok"

\* all three phases happened in one run
C15_Witness ==
    /\ \E i \in DOMAIN trace : IsGameUpdate(trace[i])
    /\ \E i \in DOMAIN trace : IsUpdateMod(trace[i])
    /\ \E i \in DOMAIN trace : IsGameLaunch(trace[i])

IsFailedFetch(e) == IsFetchOp(e) /\ e.res = "failed"

\* C16: after a run in which the download or the extraction of SteamCMD
\* failed the expected binary is absent, and the "already present" check never
\* accepts a file left behind by a failed or partial extraction: whenever
\* update_game goes on past provisioning the binary is complete.
C16_CleanRetry ==
    /\ (pc = "exited" /\ \E i \in DOMAIN trace : IsFailedFetch(trace[i]))
          => fs[SteamcmdFile] = "absent"
    /\ (pc = "ug_steam_linux" /\ args.update) => fs[SteamcmdFile] = "complete"

IsWineVersion(e) == IsCall(e) /\ e.cmd[Len(e.cmd)] = Tok("--version")

\* C17: with Proton selected no outcome of the Wine availability check ends
\* the run, and an unavailable Wine only skips the Windows-client probe and
\* shutdown; with Wine selected an unavailable Wine ends the run before any
\* update-client invocation.
C17_WineFatalOnlyForWine ==
    \A i \in DOMAIN trace :
       IsWineVersion(trace[i]) =>
          /\ args.proton => ~(pc = "exited" /\ i = Len(trace))
          /\ trace[i].res # "0" =>
                /\ \A j \in DOMAIN trace :
                      ~IsWineShutdown(trace[j]) /\ ~IsProbeRunning(trace[j], "wine")
                /\ ~args.proton =>
                      \A j \in DOMAIN trace : ~IsAppUpdate(trace[j])

====
